---- MODULE Spec2Model ----
(***************************************************************************)
(* Model of lambda/main.py: a Lambda handler that decodes a batch of       *)
(* Kinesis records, normalizes CloudWatch Logs subscription envelopes,     *)
(* groups the log entries by log type and uploads one gzip object per      *)
(* type to S3.                                                             *)
(*                                                                         *)
(* Text is modelled by TLA+ strings (Len, SubSeq and \o act on them).      *)
(* JSON values are tagged records:                                         *)
(*    [k |-> "str",  s |-> "..."]   a string that is not JSON text         *)
(*    [k |-> "enc",  v |-> value]   a string holding the JSON text of v    *)
(*    [k |-> "num",  n |-> 7]       a number                               *)
(*    [k |-> "null"]                null / None                            *)
(*    [k |-> "list", items |-> <<...>>]                                    *)
(*    [k |-> "obj",  f |-> <<[n |-> name, v |-> value], ...>>]             *)
(* An object keeps its fields in insertion order, as a Python dict does.   *)
(***************************************************************************)
EXTENDS Integers, Sequences, FiniteSets, TLC

VARIABLES
    pc,                  \* position of the handler
    fetched,             \* records yielded so far by iter_deaggregate_records
    record,              \* decode_validate: the loop variable `record`
    normalized_payloads, \* decode_validate: payloads of `record` still to classify
    log_dict,            \* decode_validate / upload_by_type: the BucketMap
    processed_records,   \* decode_validate: counter
    upload_pos,          \* upload_by_type: buckets of log_dict.items() consumed
    s3,                  \* objects written by s3.upload_fileobj, in order
    error                \* the exception that ended the invocation and where it rose

vars == <<pc, fetched, record, normalized_payloads, log_dict, processed_records,
          upload_pos, s3, error>>

\* ------------------------------------------------------------ bounds
\* records in one batch
MaxRecords == 2
\* logEvents in one DATA_MESSAGE envelope (specification SpecNormalizer)
MaxEvents == 3

\* ------------------------------------------------------------ configuration
PATH_PREFIX == "logs"
BUCKET_NAME == "log-bucket"
LOG_ID_FIELD == "log_id"
LOG_TYPE_FIELD == "log_type"
LOG_TIMESTAMP_FIELD == "time"
LOG_TYPE_UNKNOWN_PREFIX == "unknown"

\* ------------------------------------------------------------ values
Str(s) == [k |-> "str", s |-> s]
Enc(v) == [k |-> "enc", v |-> v]
Num(n) == [k |-> "num", n |-> n]
Null == [k |-> "null"]
List(items) == [k |-> "list", items |-> items]
Obj(f) == [k |-> "obj", f |-> f]
Fld(n, v) == [n |-> n, v |-> v]

IsStr(v) == v.k \in {"str", "enc"}

\* Python: key in dict
HasKey(o, name) == \E i \in 1..Len(o.f) : o.f[i].n = name

\* Python: dict[key], for a key that is present
GetKey(o, name) == o.f[CHOOSE i \in 1..Len(o.f) : o.f[i].n = name].v

\* Python truthiness of a value (if log_timestamp: / if log_id:)
Truthy(v) ==
    CASE v.k = "null" -> FALSE
      [] v.k = "str"  -> v.s # ""
      [] v.k = "enc"  -> TRUE
      [] v.k = "num"  -> v.n # 0
      [] v.k = "list" -> v.items # <<>>
      [] v.k = "obj"  -> v.f # <<>>

\* Python: sub in s, for strings
Contains(s, sub) ==
    \E i \in 1..(Len(s) + 1) :
        i + Len(sub) - 1 <= Len(s) /\ SubSeq(s, i, i + Len(sub) - 1) = sub

\* Python: s.startswith(p)
StartsWith(s, p) == Len(p) <= Len(s) /\ SubSeq(s, 1, Len(p)) = p

\* ------------------------------------------------------------ characters
\* the printable ASCII characters, code 32 (space) to 95 (_) and 97 (a) to 126 (~)
AsciiLow == " !\"#$%&'()*+,-./0123456789:;<=>?@ABCDEFGHIJKLMNOPQRSTUVWXYZ[\\]^_"
AsciiHigh == "abcdefghijklmnopqrstuvwxyz{|}~"

Char(s, i) == SubSeq(s, i, i)

\* the character codes: 10 for the line feed, 32 to 95 and 97 to 126 for the tables
OrdTable ==
    [c \in {"\n"} \cup {Char(AsciiLow, i) : i \in 1..Len(AsciiLow)}
                  \cup {Char(AsciiHigh, i) : i \in 1..Len(AsciiHigh)} |->
        IF c = "\n" THEN 10
        ELSE IF \E i \in 1..Len(AsciiLow) : Char(AsciiLow, i) = c
             THEN 31 + (CHOOSE i \in 1..Len(AsciiLow) : Char(AsciiLow, i) = c)
             ELSE 96 + (CHOOSE i \in 1..Len(AsciiHigh) : Char(AsciiHigh, i) = c)]

\* Python: ord(c), for the characters the model uses
Ord(c) == OrdTable[c]

HexDigits == "0123456789ABCDEF"

\* '%{:02X}'.format(n)
Hex2(n) == "%" \o Char(HexDigits, (n \div 16) + 1) \o Char(HexDigits, (n % 16) + 1)

IsDigit(c) == Ord(c) \in 48..57

AllDigits(s) == \A i \in 1..Len(s) : IsDigit(Char(s, i))

RECURSIVE ToNat(_)
\* int(s) for a string of digits
ToNat(s) ==
    IF s = "" THEN 0
    ELSE ToNat(SubSeq(s, 1, Len(s) - 1)) * 10 + (Ord(Char(s, Len(s))) - 48)

RECURSIVE ToStr(_)
\* str(n) for a natural number
ToStr(n) ==
    IF n < 10 THEN Char(HexDigits, n + 1)
    ELSE ToStr(n \div 10) \o Char(HexDigits, (n % 10) + 1)

RECURSIVE ZeroPad(_, _)
\* strftime's zero padded decimal field of the given width
ZeroPad(n, width) ==
    IF Len(ToStr(n)) >= width THEN ToStr(n)
    ELSE "0" \o ZeroPad(n, width - 1)

\* ------------------------------------------------------------ urllib.parse.quote
\* characters quote() never encodes: letters, digits, "_.-~" and the default safe "/"
IsSafeChar(c) ==
    \/ Ord(c) \in 48..57
    \/ Ord(c) \in 65..90
    \/ Ord(c) \in 97..122
    \/ c \in {"_", ".", "-", "~", "/"}

RECURSIVE quote(_)
\* urllib.parse.quote(s) for an ASCII string
quote(s) ==
    IF s = "" THEN ""
    ELSE (IF IsSafeChar(Char(s, 1)) THEN Char(s, 1) ELSE Hex2(Ord(Char(s, 1))))
         \o quote(SubSeq(s, 2, Len(s)))

\* ------------------------------------------------------------ dateutil / datetime
IsLeap(y) == (y % 4 = 0 /\ y % 100 # 0) \/ y % 400 = 0

DaysInMonth(y, m) ==
    IF m = 2 THEN (IF IsLeap(y) THEN 29 ELSE 28)
    ELSE IF m \in {4, 6, 9, 11} THEN 30 ELSE 31

\* dateutil.parser.parse(s) on a string: the datetime it returns for a timestamp
\* written YYYY-MM-DDTHH:MM:SSZ, or the failure it raises (ParserError, a
\* ValueError) for a string that is no date.
dateutil_parse(s) ==
    LET shaped == /\ Len(s) = 20
                  /\ Char(s, 5) = "-" /\ Char(s, 8) = "-" /\ Char(s, 11) = "T"
                  /\ Char(s, 14) = ":" /\ Char(s, 17) = ":" /\ Char(s, 20) = "Z"
                  /\ AllDigits(SubSeq(s, 1, 4)) /\ AllDigits(SubSeq(s, 6, 7))
                  /\ AllDigits(SubSeq(s, 9, 10)) /\ AllDigits(SubSeq(s, 12, 13))
                  /\ AllDigits(SubSeq(s, 15, 16)) /\ AllDigits(SubSeq(s, 18, 19))
        dt == [year   |-> ToNat(SubSeq(s, 1, 4)),
               month  |-> ToNat(SubSeq(s, 6, 7)),
               day    |-> ToNat(SubSeq(s, 9, 10)),
               hour   |-> ToNat(SubSeq(s, 12, 13)),
               minute |-> ToNat(SubSeq(s, 15, 16)),
               second |-> ToNat(SubSeq(s, 18, 19))]
    IN  IF /\ shaped
           /\ dt.year >= 1 /\ dt.month \in 1..12
           /\ dt.day \in 1..DaysInMonth(dt.year, dt.month)
           /\ dt.hour < 24 /\ dt.minute < 60 /\ dt.second < 60
        THEN [ok |-> TRUE, dt |-> dt]
        ELSE [ok |-> FALSE]

\* first_timestamp.strftime("%Y-%m/%d/%Y-%m-%d-%H:%M:%S-")
strftime(dt) ==
    ZeroPad(dt.year, 4) \o "-" \o ZeroPad(dt.month, 2) \o "/" \o ZeroPad(dt.day, 2)
    \o "/" \o ZeroPad(dt.year, 4) \o "-" \o ZeroPad(dt.month, 2) \o "-"
    \o ZeroPad(dt.day, 2) \o "-" \o ZeroPad(dt.hour, 2) \o ":"
    \o ZeroPad(dt.minute, 2) \o ":" \o ZeroPad(dt.second, 2) \o "-"

\* the values datetime.datetime.now() may return during one invocation
Clock == {[year |-> 2026, month |-> 11, day |-> 3, hour |-> 9, minute |-> 15, second |-> 0],
          [year |-> 2026, month |-> 11, day |-> 3, hour |-> 9, minute |-> 15, second |-> 1]}

\* the values str(uuid.uuid4()) may return
Uuids == {"0f8fad5b-d9cb-469f-a165-70867728950e",
          "7c9e6679-7425-40de-944b-e07fc1f90ae7"}

\* ------------------------------------------------------------ str(), join, split
RECURSIVE EscapeStr(_, _)
\* the body of Python's repr of a string s inside the quote character q
EscapeStr(s, q) ==
    IF s = "" THEN ""
    ELSE LET c == Char(s, 1)
         IN  (CASE c = "\\" -> "\\\\"
                [] c = "\n" -> "\\n"
                [] c = "\t" -> "\\t"
                [] c = q    -> "\\" \o q
                [] OTHER    -> c)
             \o EscapeStr(SubSeq(s, 2, Len(s)), q)

\* repr(s) of a string: single quotes, unless s holds ' and no "
ReprStr(s) ==
    LET q == IF Contains(s, "'") /\ ~Contains(s, "\"") THEN "\"" ELSE "'"
    IN  q \o EscapeStr(s, q) \o q

RECURSIVE Join(_, _)
\* sep.join(parts)
Join(parts, sep) ==
    IF parts = <<>> THEN ""
    ELSE IF Len(parts) = 1 THEN parts[1]
    ELSE parts[1] \o sep \o Join(Tail(parts), sep)

RECURSIVE Repr(_)
\* repr(v) of a parsed JSON value: what str(record) renders for a dict
Repr(v) ==
    CASE v.k = "str"  -> ReprStr(v.s)
      [] v.k = "num"  -> ToStr(v.n)
      [] v.k = "null" -> "None"
      [] v.k = "list" -> "[" \o Join([i \in 1..Len(v.items) |-> Repr(v.items[i])], ", ") \o "]"
      [] v.k = "obj"  ->
            "{" \o Join([i \in 1..Len(v.f) |->
                            ReprStr(v.f[i].n) \o ": " \o Repr(v.f[i].v)], ", ") \o "}"

\* str(record)
py_str(v) == IF v.k = "str" THEN v.s ELSE Repr(v)

\* the positions of the separator in text, and the k-th of them
SeparatorsIn(text, sep) == {i \in 1..Len(text) : Char(text, i) = sep}
NthSeparator(text, sep, k) ==
    CHOOSE p \in SeparatorsIn(text, sep) :
        Cardinality({q \in SeparatorsIn(text, sep) : q < p}) = k - 1

\* text.split(sep) for a one character separator
Split(text, sep) ==
    LET n == Cardinality(SeparatorsIn(text, sep))
    IN  [k \in 1..(n + 1) |->
            SubSeq(text,
                   IF k = 1 THEN 1 ELSE NthSeparator(text, sep, k - 1) + 1,
                   IF k = n + 1 THEN Len(text) ELSE NthSeparator(text, sep, k) - 1)]

\* ------------------------------------------------------------ bytes, gzip
\* A bytes object is the UTF-8 encoding of a text, or a gzip member around bytes.
\* str.encode()
encode(text) == [gz |-> FALSE, text |-> text]

\* bytes.decode()
decode(bytes) == bytes.text

\* gzip.compress(bytes, compresslevel)
gzip_compress(bytes, compresslevel) ==
    [gz |-> TRUE, compresslevel |-> compresslevel, inner |-> bytes]

\* gzip.decompress(bytes)
gzip_decompress(bytes) == bytes.inner

\* the first character of the JSON text of v
JsonLead(v) ==
    CASE v.k = "obj"  -> "{"
      [] v.k = "list" -> "["
      [] v.k = "str"  -> "\""
      [] v.k = "null" -> "n"
      [] v.k = "num"  -> Char(ToStr(v.n), 1)

\* the leading bytes of a bytes object: the gzip magic number of a gzip member,
\* the first two bytes of a plain text, the first byte of a JSON text
LeadBytes(bytes) ==
    IF bytes.gz THEN <<31, 139>>
    ELSE IF bytes.text.k = "enc" THEN <<Ord(JsonLead(bytes.text.v))>>
    ELSE [i \in 1..(IF Len(bytes.text.s) < 2 THEN Len(bytes.text.s) ELSE 2) |->
             Ord(Char(bytes.text.s, i))]

\* ------------------------------------------------------------ json, subscripts
\* json.loads(text): the parsed value, or the exception raised
json_loads(text) ==
    CASE text.k = "enc" -> [raised |-> "none", value |-> text.v]
      [] text.k = "str" -> [raised |-> "JSONDecodeError"]
      [] OTHER          -> [raised |-> "TypeError"]

\* Python: key in v
py_in(key, v) ==
    CASE v.k = "obj"  -> [raised |-> "none", value |-> HasKey(v, key)]
      [] v.k = "str"  -> [raised |-> "none", value |-> Contains(v.s, key)]
      [] v.k = "list" -> [raised |-> "none",
                          value |-> \E i \in 1..Len(v.items) : v.items[i] = Str(key)]
      [] OTHER        -> [raised |-> "TypeError"]

\* Python: v[key] for a string key
py_getitem(v, key) ==
    CASE v.k = "obj" -> IF HasKey(v, key)
                        THEN [raised |-> "none", value |-> GetKey(v, key)]
                        ELSE [raised |-> "KeyError"]
      [] OTHER       -> [raised |-> "TypeError"]

\* Python: the items a for loop over v visits
py_iter(v) ==
    CASE v.k = "list" -> [raised |-> "none", items |-> v.items]
      [] v.k = "obj"  -> [raised |-> "none", items |-> [i \in 1..Len(v.f) |-> Str(v.f[i].n)]]
      [] v.k = "str"  -> [raised |-> "none", items |-> [i \in 1..Len(v.s) |-> Str(Char(v.s, i))]]
      [] OTHER        -> [raised |-> "TypeError"]

\* ------------------------------------------------------------ normalize_kinesis_payload
Return(payloads) == [raised |-> "none", payloads |-> payloads]
Raise(exc) == [raised |-> exc, payloads |-> <<>>]

\* the body of the loop over payload['logEvents']: event['message'] parsed as JSON
parse_event(event) ==
    LET message == py_getitem(event, "message")
    IN  IF message.raised # "none" THEN [raised |-> message.raised]
        ELSE json_loads(message.value)

RECURSIVE log_events_loop_breaking(_, _)
\* log_events_loop as it would be if a JSONDecodeError ended the loop (break)
log_events_loop_breaking(events, payloads) ==
    IF events = <<>> THEN Return(payloads)
    ELSE LET payload_parsed == parse_event(Head(events))
         IN  IF payload_parsed.raised = "JSONDecodeError"
             THEN Return(payloads)
             ELSE IF payload_parsed.raised # "none"
             THEN Raise(payload_parsed.raised)
             ELSE log_events_loop_breaking(Tail(events), Append(payloads, payload_parsed.value))

RECURSIVE log_events_loop(_, _)
\* for event in payload['logEvents']: a JSONDecodeError skips the event (continue),
\* any other exception leaves the function
log_events_loop(events, payloads) ==
    IF events = <<>> THEN Return(payloads)
    ELSE LET payload_parsed == parse_event(Head(events))
         IN  IF payload_parsed.raised = "JSONDecodeError"
             THEN log_events_loop(Tail(events), payloads)
             ELSE IF payload_parsed.raised # "none"
             THEN Raise(payload_parsed.raised)
             ELSE log_events_loop(Tail(events), Append(payloads, payload_parsed.value))

\* the events of a DATA_MESSAGE payload, normalized
data_message_payloads(payload) ==
    IF HasKey(payload, "logEvents")
    THEN LET events == py_iter(GetKey(payload, "logEvents"))
         IN  IF events.raised # "none" THEN Raise(events.raised)
             ELSE log_events_loop(events.items, <<>>)
    ELSE Return(<<>>)

\* cloudwatch_payloads as it would be if any messageType but DATA_MESSAGE were skipped
cloudwatch_payloads_lenient(payload) ==
    LET messageType == py_getitem(payload, "messageType")
    IN  IF messageType.raised # "none" THEN Raise(messageType.raised)
        ELSE IF messageType.value = Str("DATA_MESSAGE")
        THEN data_message_payloads(payload)
        ELSE Return(<<>>)

\* cloudwatch_payloads as it would be without the CONTROL_MESSAGE branch
cloudwatch_payloads_no_control(payload) ==
    LET messageType == py_getitem(payload, "messageType")
    IN  IF messageType.raised # "none" THEN Raise(messageType.raised)
        ELSE IF messageType.value = Str("DATA_MESSAGE")
        THEN data_message_payloads(payload)
        ELSE Raise("ValueError")

\* the branch taken when 'messageType' is in the parsed payload
cloudwatch_payloads(payload) ==
    LET messageType == py_getitem(payload, "messageType")
    IN  IF messageType.raised # "none" THEN Raise(messageType.raised)
        ELSE IF messageType.value = Str("DATA_MESSAGE")
        THEN data_message_payloads(payload)
        ELSE IF messageType.value = Str("CONTROL_MESSAGE")
        THEN Return(<<>>)
        ELSE Raise("ValueError")

\* normalize_kinesis_payload(payload), payload a text
normalize_kinesis_payload(payload) ==
    IF payload.k = "str" /\ Len(payload.s) < 1 THEN Return(<<>>)
    ELSE LET parsed == json_loads(payload)
         IN  IF parsed.raised = "JSONDecodeError" THEN Return(<<>>)
             ELSE IF parsed.raised # "none" THEN Raise(parsed.raised)
             ELSE LET has == py_in("messageType", parsed.value)
                  IN  IF has.raised # "none" THEN Raise(has.raised)
                      ELSE IF has.value THEN cloudwatch_payloads(parsed.value)
                      ELSE Return(<<parsed.value>>)

\* ------------------------------------------------------------ append_to_dict
\* log_type in dictionary
InDict(dictionary, log_type) ==
    \E i \in 1..Len(dictionary) : dictionary[i].log_type = log_type

\* the position of dictionary[log_type]
DictIndex(dictionary, log_type) ==
    CHOOSE i \in 1..Len(dictionary) : dictionary[i].log_type = log_type

\* the first_timestamp of a new bucket: the parsed timestamp, the current time
\* when there is none or dateutil raises TypeError, or the exception that escapes
first_timestamp_of(log_timestamp, now) ==
    IF Truthy(log_timestamp)
    THEN IF log_timestamp.k = "str"
         THEN LET parsed == dateutil_parse(log_timestamp.s)
              IN  IF parsed.ok THEN [raised |-> "none", value |-> parsed.dt]
                  ELSE [raised |-> "ParserError"]
         ELSE [raised |-> "none", value |-> now]
    ELSE [raised |-> "none", value |-> now]

\* the first_id of a new bucket
first_id_of(log_id, uuid4) == IF Truthy(log_id) THEN log_id ELSE Str(uuid4)

\* append_to_dict as it would be if every append refreshed the first-seen metadata
append_to_dict_overwriting(dictionary, log_type, log_data, log_timestamp, log_id, now, uuid4) ==
    LET ts == first_timestamp_of(log_timestamp, now)
        fresh == [log_type        |-> log_type,
                  records         |-> <<log_data>>,
                  first_timestamp |-> IF ts.raised = "none" THEN ts.value ELSE now,
                  first_id        |-> first_id_of(log_id, uuid4)]
    IN  IF InDict(dictionary, log_type)
        THEN LET i == DictIndex(dictionary, log_type)
             IN  [raised |-> "none",
                  dictionary |-> [dictionary EXCEPT
                      ![i] = [fresh EXCEPT !.records = Append(dictionary[i].records, log_data)]]]
        ELSE [raised |-> "none", dictionary |-> Append(dictionary, fresh)]

\* append_to_dict as it would be if the append were the else branch of the
\* initialization, so that the entry that creates a bucket is not stored
append_to_dict_else_append(dictionary, log_type, log_data, log_timestamp, log_id, now, uuid4) ==
    IF log_type.k \in {"list", "obj"} THEN [raised |-> "TypeError", dictionary |-> dictionary]
    ELSE IF InDict(dictionary, log_type)
    THEN LET i == DictIndex(dictionary, log_type)
         IN  [raised |-> "none",
              dictionary |-> [dictionary EXCEPT ![i].records = Append(@, log_data)]]
    ELSE LET ts == first_timestamp_of(log_timestamp, now)
         IN  IF ts.raised # "none" THEN [raised |-> ts.raised, dictionary |-> dictionary]
             ELSE [raised |-> "none",
                   dictionary |-> Append(dictionary,
                       [log_type        |-> log_type,
                        records         |-> <<>>,
                        first_timestamp |-> ts.value,
                        first_id        |-> first_id_of(log_id, uuid4)])]

\* append_to_dict(dictionary, log_type, log_data, log_timestamp, log_id); now and
\* uuid4 are what datetime.datetime.now() and uuid.uuid4() return if called
append_to_dict(dictionary, log_type, log_data, log_timestamp, log_id, now, uuid4) ==
    IF log_type.k \in {"list", "obj"} THEN [raised |-> "TypeError", dictionary |-> dictionary]
    ELSE IF InDict(dictionary, log_type)
    THEN LET i == DictIndex(dictionary, log_type)
         IN  [raised |-> "none",
              dictionary |-> [dictionary EXCEPT ![i].records = Append(@, log_data)]]
    ELSE LET ts == first_timestamp_of(log_timestamp, now)
         IN  IF ts.raised # "none" THEN [raised |-> ts.raised, dictionary |-> dictionary]
             ELSE [raised |-> "none",
                   dictionary |-> Append(dictionary,
                       [log_type        |-> log_type,
                        records         |-> <<log_data>>,
                        first_timestamp |-> ts.value,
                        first_id        |-> first_id_of(log_id, uuid4)])]

\* ------------------------------------------------------------ decode_validate
\* decoded_data[0] == 0x1f and decoded_data[1] == 0x8b, then decompress and decode:
\* the text handed to the normalizer, or the IndexError of a missing byte
decode_record(decoded_data) ==
    LET lead == LeadBytes(decoded_data)
    IN  IF Len(lead) < 1 THEN [raised |-> "IndexError"]
        ELSE IF lead[1] = 31 /\ Len(lead) < 2 THEN [raised |-> "IndexError"]
        ELSE IF lead[1] = 31 /\ lead[2] = 139
        THEN [raised |-> "none", text |-> decode(gzip_decompress(decoded_data))]
        ELSE [raised |-> "none", text |-> decode(decoded_data)]

\* dict.setdefault(key, None)
setdefault(payload, key) ==
    IF HasKey(payload, key) THEN payload
    ELSE Obj(Append(payload.f, Fld(key, Null)))

\* no_timestamp_type as it would be if the unknown prefix were always prepended
no_timestamp_type_prefixing(log_type) ==
    LOG_TYPE_UNKNOWN_PREFIX \o "/" \o log_type \o "_no_timestamp"

\* the log type of an entry without timestamp
no_timestamp_type(log_type) ==
    (IF ~StartsWith(log_type, LOG_TYPE_UNKNOWN_PREFIX)
     THEN LOG_TYPE_UNKNOWN_PREFIX \o "/" \o log_type
     ELSE log_type) \o "_no_timestamp"

\* unknown_type as it would be if the unknown prefix were left out
unknown_type_bare == "unknown_type"

\* the log type of an entry without type field
unknown_type == LOG_TYPE_UNKNOWN_PREFIX \o "/unknown_type"

\* classify as it would be if an entry without timestamp were logged and skipped
classify_dropping(dictionary, normalized_payload, now, uuid4) ==
    IF normalized_payload.k # "obj"
    THEN [raised |-> "AttributeError", dictionary |-> dictionary]
    ELSE LET payload == setdefault(normalized_payload, LOG_ID_FIELD)
             log_type == IF HasKey(payload, LOG_TYPE_FIELD)
                         THEN GetKey(payload, LOG_TYPE_FIELD)
                         ELSE Str(unknown_type)
         IN  IF HasKey(payload, LOG_TIMESTAMP_FIELD)
             THEN append_to_dict(dictionary, log_type, payload,
                                 GetKey(payload, LOG_TIMESTAMP_FIELD),
                                 GetKey(payload, LOG_ID_FIELD), now, uuid4)
             ELSE [raised |-> "none", dictionary |-> dictionary]

\* the body of the loop over normalized_payloads, after processed_records += 1
classify(dictionary, normalized_payload, now, uuid4) ==
    IF normalized_payload.k # "obj"
    THEN [raised |-> "AttributeError", dictionary |-> dictionary]
    ELSE LET payload == setdefault(normalized_payload, LOG_ID_FIELD)
             log_id == GetKey(payload, LOG_ID_FIELD)
             log_type == IF HasKey(payload, LOG_TYPE_FIELD)
                         THEN GetKey(payload, LOG_TYPE_FIELD)
                         ELSE Str(unknown_type)
         IN  IF HasKey(payload, LOG_TIMESTAMP_FIELD)
             THEN append_to_dict(dictionary, log_type, payload,
                                 GetKey(payload, LOG_TIMESTAMP_FIELD), log_id, now, uuid4)
             ELSE IF log_type.k # "str"
             THEN [raised |-> "AttributeError", dictionary |-> dictionary]
             ELSE append_to_dict(dictionary, Str(no_timestamp_type(log_type.s)), payload,
                                 Null, log_id, now, uuid4)

\* ------------------------------------------------------------ upload_by_type
\* object_key as it would be if first_id went into the key as it is
object_key_unquoted(records_object) ==
    IF records_object.first_id.k # "str" \/ records_object.log_type.k # "str"
    THEN [raised |-> "TypeError"]
    ELSE [raised |-> "none",
          key |-> PATH_PREFIX \o "/" \o records_object.log_type.s \o "/"
                  \o strftime(records_object.first_timestamp)
                  \o records_object.first_id.s \o ".gz"]

\* the S3 key of a bucket, or the TypeError of a first_id or log_type that is no string
object_key(records_object) ==
    IF records_object.first_id.k # "str" \/ records_object.log_type.k # "str"
    THEN [raised |-> "TypeError"]
    ELSE [raised |-> "none",
          key |-> PATH_PREFIX \o "/" \o records_object.log_type.s \o "/"
                  \o strftime(records_object.first_timestamp)
                  \o quote(records_object.first_id.s) \o ".gz"]

\* object_data as it would be if the entries were joined as a list is printed
object_data_comma(records) == Join([i \in 1..Len(records) |-> py_str(records[i])], ", ")

\* data = '\n'.join(str(record) for record in records)
object_data(records) == Join([i \in 1..Len(records) |-> py_str(records[i])], "\n")

\* put_to_s3: the object handed to s3.upload_fileobj
put_to_s3(key, bucket, data) ==
    [bucket |-> bucket, key |-> key, body |-> gzip_compress(encode(Str(data)), 9)]

\* ------------------------------------------------------------ inputs
T1 == "2024-01-02T03:04:05Z"
T2 == "2023-12-31T23:59:58Z"

\* log entries: every combination of identity, type and timestamp present or absent
EntryFull == Obj(<<Fld("log_id", Str("abc")), Fld("log_type", Str("app")), Fld("time", Str(T1))>>)
EntryLater == Obj(<<Fld("log_type", Str("app")), Fld("time", Str(T2)),
                    Fld("log_id", Str("x y:z")), Fld("msg", Str("two\nlines"))>>)
EntryNoId == Obj(<<Fld("log_type", Str("app")), Fld("time", Str(T2))>>)
EntryNoTs == Obj(<<Fld("log_id", Str("abc")), Fld("log_type", Str("app"))>>)
EntryNoTsNoId == Obj(<<Fld("log_type", Str("app")), Fld("msg", Str("it's"))>>)
EntryNoType == Obj(<<Fld("log_id", Str("n-1")), Fld("time", Str(T1))>>)
EntryNoTypeNoId == Obj(<<Fld("time", Str(T2))>>)
EntryNoTypeNoTs == Obj(<<Fld("log_id", Str("abc"))>>)
EntryBare == Obj(<<Fld("msg", Str("hello"))>>)
\* a second type; a type that is literally the name of a no-timestamp bucket;
\* a type that already starts with the unknown prefix
EntryWeb == Obj(<<Fld("log_id", Str("w#1/a b")), Fld("log_type", Str("web")), Fld("time", Str(T2))>>)
EntryCollide == Obj(<<Fld("log_id", Str("zzz")), Fld("log_type", Str("unknown/app_no_timestamp")),
                      Fld("time", Str(T1))>>)
EntryUnknownish == Obj(<<Fld("log_id", Str("u1")), Fld("log_type", Str("unknown_src"))>>)
\* timestamps that are present and are no date, no string, or null
EntryBadTs == Obj(<<Fld("log_id", Str("abc")), Fld("log_type", Str("app")), Fld("time", Str("not-a-date"))>>)
EntryNumTs == Obj(<<Fld("log_id", Str("abc")), Fld("log_type", Str("app")), Fld("time", Num(1704164645))>>)
EntryNullTs == Obj(<<Fld("log_type", Str("app")), Fld("time", Null)>>)
\* an identity and a type that are numbers
EntryNumId == Obj(<<Fld("log_id", Num(42)), Fld("log_type", Str("app")), Fld("time", Str(T1))>>)
EntryNumType == Obj(<<Fld("log_id", Str("abc")), Fld("log_type", Num(7))>>)

Entries == {EntryFull, EntryLater, EntryNoId, EntryNoTs, EntryNoTsNoId, EntryNoType,
            EntryNoTypeNoId, EntryNoTypeNoTs, EntryBare, EntryWeb, EntryCollide,
            EntryUnknownish, EntryBadTs, EntryNumTs, EntryNullTs, EntryNumId, EntryNumType}

\* a CloudWatch Logs event whose message is the JSON text of v
Event(v) == Obj(<<Fld("id", Str("e")), Fld("message", Enc(v))>>)
\* an event whose message is no JSON text
BadEvent(s) == Obj(<<Fld("id", Str("e")), Fld("message", Str(s))>>)
\* an event without message
NoMessageEvent == Obj(<<Fld("id", Str("e"))>>)

\* a subscription filter envelope
Envelope(messageType, rest) == Obj(<<Fld("messageType", Str(messageType))>> \o rest)
DataMessage(events) ==
    Envelope("DATA_MESSAGE", <<Fld("owner", Str("123")), Fld("logEvents", List(events))>>)
ControlMessage == Envelope("CONTROL_MESSAGE", <<Fld("logEvents", List(<<Event(EntryFull)>>))>>)
UnknownMessage == Envelope("PING_MESSAGE", <<Fld("logEvents", List(<<Event(EntryFull)>>))>>)

\* texts that are not JSON
Garbage == {Str(""), Str("x"), Str("not json {")}

\* the decoded data of the records a batch may hold
Records ==
    {encode(Enc(e)) : e \in Entries}
    \cup {encode(t) : t \in Garbage}
    \cup {gzip_compress(encode(t), 6) : t \in {Enc(EntryLater), Str("")}}
    \cup {encode(Enc(m)) : m \in {ControlMessage, UnknownMessage,
                                  DataMessage(<<Event(EntryFull), BadEvent("oops"), Event(EntryLater)>>),
                                  DataMessage(<<Event(EntryNoTs), Event(EntryWeb)>>),
                                  Obj(<<Fld("messageType", Num(1))>>),
                                  Num(5), Str("hello"), Null}}

NoRecord == encode(Str("<none>"))
NoError == [exc |-> "none", at |-> "none"]

\* ------------------------------------------------------------ handler
Init ==
    /\ pc = "fetch"
    /\ fetched = 0
    /\ record = NoRecord
    /\ normalized_payloads = <<>>
    /\ log_dict = <<>>
    /\ processed_records = 0
    /\ upload_pos = 0
    /\ s3 = <<>>
    /\ error = NoError

\* decode_validate: iter_deaggregate_records yields the next record; it is decoded
\* and normalized
DecodeRecord ==
    /\ pc = "fetch"
    /\ fetched < MaxRecords
    /\ \E r \in Records :
        LET decoded == decode_record(r)
            normalized == IF decoded.raised = "none"
                          THEN normalize_kinesis_payload(decoded.text)
                          ELSE Raise(decoded.raised)
        IN  /\ record' = r
            /\ fetched' = fetched + 1
            /\ normalized_payloads' = normalized.payloads
            /\ error' = IF decoded.raised # "none" THEN [exc |-> decoded.raised, at |-> "decode"]
                        ELSE IF normalized.raised # "none"
                        THEN [exc |-> normalized.raised, at |-> "normalize"]
                        ELSE NoError
            /\ pc' = IF normalized.raised # "none" THEN "failed"
                     ELSE IF normalized.payloads = <<>> THEN "fetch" ELSE "classify"
    /\ UNCHANGED <<log_dict, processed_records, upload_pos, s3>>

\* decode_validate: one turn of the loop over normalized_payloads
ClassifyPayload ==
    /\ pc = "classify"
    /\ \E now \in Clock, uuid4 \in Uuids :
        LET res == classify(log_dict, Head(normalized_payloads), now, uuid4)
        IN  /\ processed_records' = processed_records + 1
            /\ log_dict' = res.dictionary
            /\ IF res.raised # "none"
               THEN /\ pc' = "failed"
                    /\ error' = [exc |-> res.raised, at |-> "classify"]
                    /\ UNCHANGED normalized_payloads
               ELSE /\ normalized_payloads' = Tail(normalized_payloads)
                    /\ pc' = IF Len(normalized_payloads) = 1 THEN "fetch" ELSE "classify"
                    /\ UNCHANGED error
    /\ UNCHANGED <<fetched, record, upload_pos, s3>>

\* decode_validate: the batch is exhausted, log_dict is returned to the handler,
\* which calls upload_by_type
EndOfBatch ==
    /\ pc = "fetch"
    /\ pc' = "upload"
    /\ UNCHANGED <<fetched, record, normalized_payloads, log_dict, processed_records,
                   upload_pos, s3, error>>

\* UploadBucket as it would be if put_to_s3 logged the failure without raising it again
UploadBucket_not_raising ==
    /\ pc = "upload"
    /\ upload_pos < Len(log_dict)
    /\ \E s3_ok \in BOOLEAN :
        LET records_object == log_dict[upload_pos + 1]
            key == object_key(records_object)
        IN  IF Len(records_object.records) < 1
            THEN /\ upload_pos' = upload_pos + 1
                 /\ UNCHANGED <<pc, s3, error>>
            ELSE IF key.raised # "none"
            THEN /\ pc' = "failed"
                 /\ error' = [exc |-> key.raised, at |-> "upload"]
                 /\ UNCHANGED <<upload_pos, s3>>
            ELSE IF ~s3_ok
            THEN /\ error' = [exc |-> "S3UploadFailedError", at |-> "put_to_s3"]
                 /\ upload_pos' = upload_pos + 1
                 /\ UNCHANGED <<pc, s3>>
            ELSE /\ s3' = Append(s3, put_to_s3(key.key, BUCKET_NAME,
                                               object_data(records_object.records)))
                 /\ upload_pos' = upload_pos + 1
                 /\ UNCHANGED <<pc, error>>
    /\ UNCHANGED <<fetched, record, normalized_payloads, log_dict, processed_records>>

\* UploadBucket as it would be if a failed write removed the objects written before it
UploadBucket_rolling_back ==
    /\ pc = "upload"
    /\ upload_pos < Len(log_dict)
    /\ \E s3_ok \in BOOLEAN :
        LET records_object == log_dict[upload_pos + 1]
            key == object_key(records_object)
        IN  IF Len(records_object.records) < 1
            THEN /\ upload_pos' = upload_pos + 1
                 /\ UNCHANGED <<pc, s3, error>>
            ELSE IF key.raised # "none"
            THEN /\ pc' = "failed"
                 /\ error' = [exc |-> key.raised, at |-> "upload"]
                 /\ UNCHANGED <<upload_pos, s3>>
            ELSE IF ~s3_ok
            THEN /\ pc' = "failed"
                 /\ error' = [exc |-> "S3UploadFailedError", at |-> "put_to_s3"]
                 /\ s3' = <<>>
                 /\ UNCHANGED upload_pos
            ELSE /\ s3' = Append(s3, put_to_s3(key.key, BUCKET_NAME,
                                               object_data(records_object.records)))
                 /\ upload_pos' = upload_pos + 1
                 /\ UNCHANGED <<pc, error>>
    /\ UNCHANGED <<fetched, record, normalized_payloads, log_dict, processed_records>>

\* upload_by_type: one turn of the loop over log_dict.items(); upload_fileobj
\* succeeds or raises S3UploadFailedError
UploadBucket ==
    /\ pc = "upload"
    /\ upload_pos < Len(log_dict)
    /\ \E s3_ok \in BOOLEAN :
        LET records_object == log_dict[upload_pos + 1]
            key == object_key(records_object)
        IN  IF Len(records_object.records) < 1
            THEN /\ upload_pos' = upload_pos + 1
                 /\ UNCHANGED <<pc, s3, error>>
            ELSE IF key.raised # "none"
            THEN /\ pc' = "failed"
                 /\ error' = [exc |-> key.raised, at |-> "upload"]
                 /\ UNCHANGED <<upload_pos, s3>>
            ELSE IF ~s3_ok
            THEN /\ pc' = "failed"
                 /\ error' = [exc |-> "S3UploadFailedError", at |-> "put_to_s3"]
                 /\ UNCHANGED <<upload_pos, s3>>
            ELSE /\ s3' = Append(s3, put_to_s3(key.key, BUCKET_NAME,
                                               object_data(records_object.records)))
                 /\ upload_pos' = upload_pos + 1
                 /\ UNCHANGED <<pc, error>>
    /\ UNCHANGED <<fetched, record, normalized_payloads, log_dict, processed_records>>

\* Finish as it would be if upload_by_type were called inside the loop over the
\* records, which then goes on with the next record
Finish_inside_loop ==
    /\ pc = "upload"
    /\ upload_pos = Len(log_dict)
    /\ pc' = IF fetched < MaxRecords THEN "fetch" ELSE "done"
    /\ UNCHANGED <<fetched, record, normalized_payloads, log_dict, processed_records,
                   upload_pos, s3, error>>

\* upload_by_type and the handler return
Finish ==
    /\ pc = "upload"
    /\ upload_pos = Len(log_dict)
    /\ pc' = "done"
    /\ UNCHANGED <<fetched, record, normalized_payloads, log_dict, processed_records,
                   upload_pos, s3, error>>

Next == DecodeRecord \/ ClassifyPayload \/ EndOfBatch \/ UploadBucket \/ Finish

Spec == Init /\ [][Next]_vars

\* ------------------------------------------------------------ the normalizer alone
\* the events an envelope of the normalizer's inputs may carry
EventKinds == {Event(EntryFull), Event(EntryNoTs), BadEvent("oops"), BadEvent(""),
               NoMessageEvent}

EventLists == UNION {[1..n -> EventKinds] : n \in 0..MaxEvents}

\* fields an envelope may carry beside messageType and logEvents
EnvelopeExtras == {<<>>, <<Fld("owner", Str("123")), Fld("logGroup", Str("/aws/x"))>>}

DataEnvelopes ==
    {Envelope("DATA_MESSAGE", x \o <<Fld("logEvents", List(events))>>) :
        x \in EnvelopeExtras, events \in EventLists}
    \cup {Envelope("DATA_MESSAGE", x) : x \in EnvelopeExtras}

ControlEnvelopes ==
    {Envelope("CONTROL_MESSAGE", x \o y) :
        x \in EnvelopeExtras,
        y \in {<<>>, <<Fld("logEvents", Null)>>, <<Fld("logEvents", Num(3))>>,
               <<Fld("logEvents", List(<<NoMessageEvent, BadEvent("oops")>>))>>,
               <<Fld("log_type", Str("app")), Fld("time", Str(T1))>>}}

UnknownEnvelopes ==
    {Obj(<<Fld("messageType", t)>> \o x) :
        t \in {Str("PING_MESSAGE"), Str("data_message"), Str(""), Num(1), Null},
        x \in EnvelopeExtras \cup {<<Fld("logEvents", List(<<Event(EntryFull)>>))>>}}

\* JSON documents that are no object
NonObjects == {Num(5), Num(0), Null, Str("hello"), Str("a messageType b"), List(<<>>),
               List(<<Num(1), Str("a")>>), List(<<Str("messageType")>>)}

\* the texts handed to the normalizer
NormalizerInputs ==
    Garbage \cup {Enc(v) : v \in Entries \cup NonObjects \cup DataEnvelopes
                                 \cup ControlEnvelopes \cup UnknownEnvelopes}

InitNormalizer ==
    /\ pc = "normalize"
    /\ fetched = 0
    /\ record \in {encode(t) : t \in NormalizerInputs}
    /\ normalized_payloads = <<>>
    /\ log_dict = <<>>
    /\ processed_records = 0
    /\ upload_pos = 0
    /\ s3 = <<>>
    /\ error = NoError

\* normalized_payloads = normalize_kinesis_payload(decoded_data)
Normalize ==
    /\ pc = "normalize"
    /\ LET normalized == normalize_kinesis_payload(decode(record))
       IN  /\ normalized_payloads' = normalized.payloads
           /\ error' = IF normalized.raised # "none"
                       THEN [exc |-> normalized.raised, at |-> "normalize"]
                       ELSE NoError
           /\ pc' = IF normalized.raised # "none" THEN "raised" ELSE "returned"
    /\ UNCHANGED <<fetched, record, log_dict, processed_records, upload_pos, s3>>

NextNormalizer == Normalize

SpecNormalizer == InitNormalizer /\ [][NextNormalizer]_vars

\* ------------------------------------------------------------ properties
Buckets == 1..Len(log_dict)

\* the identity and timestamp a stored entry carries
IdOf(entry) == GetKey(entry, LOG_ID_FIELD)
HasTimestamp(entry) == HasKey(entry, LOG_TIMESTAMP_FIELD)
TimestampOf(entry) == GetKey(entry, LOG_TIMESTAMP_FIELD)

\* a bucket's first-seen metadata is what its first entry gives: its identity, or
\* a random identifier when it has none; its parsed timestamp, or the wall clock
\* when it has none
FirstSeenFromFirstEntry(b) ==
    LET first == b.records[1]
    IN  /\ IF Truthy(IdOf(first))
           THEN b.first_id = IdOf(first)
           ELSE b.first_id.k = "str" /\ b.first_id.s \in Uuids
        /\ IF HasTimestamp(first) /\ Truthy(TimestampOf(first)) /\ TimestampOf(first).k = "str"
           THEN /\ dateutil_parse(TimestampOf(first).s).ok
                /\ b.first_timestamp = dateutil_parse(TimestampOf(first).s).dt
           ELSE b.first_timestamp \in Clock

\* no step changes the type, first_timestamp or first_id of a bucket that exists
FirstSeenKept ==
    \A i \in Buckets :
        /\ i <= Len(log_dict')
        /\ log_dict'[i].log_type = log_dict[i].log_type
        /\ log_dict'[i].first_timestamp = log_dict[i].first_timestamp
        /\ log_dict'[i].first_id = log_dict[i].first_id

\* C1: first_timestamp and first_id of every bucket are those derived from the
\* first entry appended to it, and no later append to the bucket changes them,
\* whatever timestamp or identity the later entries carry.
C1_FirstSeenSetOnce ==
    /\ [](\A i \in Buckets : FirstSeenFromFirstEntry(log_dict[i]))
    /\ [][FirstSeenKept]_vars

\* a bucket whose second entry carries another timestamp and another identity
\* than its first
C1_Witness ==
    \E i \in Buckets :
        LET r == log_dict[i].records
        IN  /\ Len(r) >= 2
            /\ HasTimestamp(r[1]) /\ HasTimestamp(r[2])
            /\ TimestampOf(r[2]) # TimestampOf(r[1])
            /\ Truthy(IdOf(r[2])) /\ IdOf(r[2]) # IdOf(r[1])
            /\ dateutil_parse(TimestampOf(r[2]).s).ok

RECURSIVE TotalEntries(_)
\* the number of entries over all buckets
TotalEntries(dictionary) ==
    IF dictionary = <<>> THEN 0
    ELSE Len(Head(dictionary).records) + TotalEntries(Tail(dictionary))

\* an entry whose classification fields are absent or usable: a type that is a
\* string, a timestamp that is not a string dateutil rejects
LacksAtMostFields(entry) ==
    /\ entry.k = "obj"
    /\ HasKey(entry, LOG_TYPE_FIELD) => GetKey(entry, LOG_TYPE_FIELD).k = "str"
    /\ HasTimestamp(entry) =>
          ~(TimestampOf(entry).k = "str" /\ Truthy(TimestampOf(entry))
            /\ ~dateutil_parse(TimestampOf(entry).s).ok)

\* C2: every normalized entry taken by the classifier is appended to exactly one
\* bucket, so the entries over all buckets are as many as the entries processed,
\* at every turn of the loop and when decode_validate returns; and classification
\* never fails on an entry that only lacks its type, timestamp or identity.
C2_NoEntryDropped ==
    /\ error = NoError => TotalEntries(log_dict) = processed_records
    /\ error.at = "classify" => ~LacksAtMostFields(Head(normalized_payloads))

\* decode_validate has returned with entries that lack the type, the timestamp
\* and the identity among those it kept
C2_Witness ==
    /\ pc = "upload"
    /\ processed_records >= 3
    /\ \E i \in Buckets : \E j \in 1..Len(log_dict[i].records) :
          LET e == log_dict[i].records[j]
          IN  ~HasKey(e, LOG_TYPE_FIELD) /\ ~HasTimestamp(e) /\ IdOf(e) = Null
    /\ \E i \in Buckets : \E j \in 1..Len(log_dict[i].records) :
          LET e == log_dict[i].records[j]
          IN  HasKey(e, LOG_TYPE_FIELD) /\ ~HasTimestamp(e)

\* the text of an uploaded object: decompressed and decoded
UploadedText(object) == decode(gzip_decompress(object.body)).s

\* a classification step appends the entry at the end of one bucket, new or not,
\* and leaves the entries of every other bucket as they are; no other step
\* touches the buckets
ArrivalOrderKept ==
    IF pc = "classify" /\ pc' # "failed"
    THEN LET entry == setdefault(Head(normalized_payloads), LOG_ID_FIELD)
         IN  \E i \in 1..Len(log_dict') :
                /\ log_dict'[i].records =
                      (IF i <= Len(log_dict) THEN log_dict[i].records ELSE <<>>) \o <<entry>>
                /\ Len(log_dict') = (IF i <= Len(log_dict) THEN Len(log_dict) ELSE i)
                /\ \A j \in 1..Len(log_dict') :
                      j # i => log_dict'[j].records = log_dict[j].records
    ELSE log_dict' = log_dict

\* C3: the text of every uploaded object, split at the line feeds, is the
\* sequence of str(entry) of the entries of its bucket, one line per entry, in the
\* order in which the entries were appended; and entries are appended to a
\* bucket in arrival order.
C3_RoundTrip ==
    /\ [](\A i \in 1..Len(s3) :
            Split(UploadedText(s3[i]), "\n")
              = [j \in 1..Len(log_dict[i].records) |-> py_str(log_dict[i].records[j])])
    /\ [][ArrivalOrderKept]_vars

\* an uploaded bucket of several entries, one of them holding a line feed
C3_Witness ==
    \E i \in 1..Len(s3) :
        LET r == log_dict[i].records
        IN  /\ Len(r) >= 2
            /\ \E j \in 1..Len(r) : HasKey(r[j], "msg") /\ Contains(GetKey(r[j], "msg").s, "\n")
            /\ Len(Split(UploadedText(s3[i]), "\n")) = Len(r)

\* the value of a hexadecimal digit
HexVal(c) == (CHOOSE i \in 1..Len(HexDigits) : Char(HexDigits, i) = c) - 1

RECURSIVE Unquote(_)
\* the text a percent-encoded text stands for
Unquote(t) ==
    IF t = "" THEN ""
    ELSE IF Char(t, 1) = "%"
    THEN LET n == HexVal(Char(t, 2)) * 16 + HexVal(Char(t, 3))
         IN  (CHOOSE c \in DOMAIN OrdTable : OrdTable[c] = n) \o Unquote(SubSeq(t, 4, Len(t)))
    ELSE Char(t, 1) \o Unquote(SubSeq(t, 2, Len(t)))

\* key is <prefix>/<type>/<year>-<month>/<day>/<year>-<month>-<day>-<hour>:<minute>:<second>-<id>.gz
\* for the date and time dt and the percent-encoding <id> of first_id
KeyHasShape(key, log_type, dt, first_id) ==
    LET head == PATH_PREFIX \o "/" \o log_type \o "/"
        rest == SubSeq(key, Len(head) + 1, Len(key))
        stamp == SubSeq(rest, 12, 30)
        name == SubSeq(rest, 32, Len(rest))
        id == SubSeq(name, 1, Len(name) - 3)
    IN  /\ StartsWith(key, head)
        /\ Len(rest) >= 34
        /\ SubSeq(rest, 1, 7) = SubSeq(stamp, 1, 7)
        /\ Char(rest, 8) = "/"
        /\ SubSeq(rest, 9, 10) = SubSeq(stamp, 9, 10)
        /\ Char(rest, 11) = "/"
        /\ Char(stamp, 11) = "-"
        /\ dateutil_parse(SubSeq(stamp, 1, 10) \o "T" \o SubSeq(stamp, 12, 19) \o "Z")
             = [ok |-> TRUE, dt |-> dt]
        /\ Char(rest, 31) = "-"
        /\ SubSeq(name, Len(name) - 2, Len(name)) = ".gz"
        /\ \A n \in 1..Len(id) : IsSafeChar(Char(id, n)) \/ Char(id, n) = "%"
        /\ Unquote(id) = first_id

\* C4: the key of every uploaded object is
\* <prefix>/<log type>/<year>-<month>/<day>/<year>-<month>-<day>-<hour>:<minute>:<second>-<percent-encoded first_id>.gz
\* with the date and time of the bucket's first_timestamp and its first_id; the
\* bucket "app" first seen with identity "abc" at 2024-01-02T03:04:05Z is written
\* to <prefix>/app/2024-01/02/2024-01-02-03:04:05-abc.gz.
C4_StorageKey ==
    \A i \in 1..Len(s3) :
        LET b == log_dict[i]
        IN  /\ KeyHasShape(s3[i].key, b.log_type.s, b.first_timestamp, b.first_id.s)
            /\ (b.log_type = Str("app") /\ b.first_id = Str("abc")
                /\ b.first_timestamp = dateutil_parse(T1).dt)
               => s3[i].key = PATH_PREFIX \o "/app/2024-01/02/2024-01-02-03:04:05-abc.gz"

\* the bucket "app" of two entries, first seen with identity "abc" at T1, has been
\* uploaded, and so has a bucket whose first_id needs encoding
C4_Witness ==
    /\ \E i \in 1..Len(s3) :
          /\ log_dict[i].log_type = Str("app")
          /\ log_dict[i].first_id = Str("abc")
          /\ log_dict[i].first_timestamp = dateutil_parse(T1).dt
          /\ Len(log_dict[i].records) = 2
    /\ \E i \in 1..Len(s3) : quote(log_dict[i].first_id.s) # log_dict[i].first_id.s

\* the bucket name the specification gives an entry without timestamp: its type,
\* or the fallback type, with the unknown prefix in front unless it starts with
\* it, and _no_timestamp behind
NoTimestampBucket(entry) ==
    LET t == IF HasKey(entry, LOG_TYPE_FIELD) THEN GetKey(entry, LOG_TYPE_FIELD).s
             ELSE LOG_TYPE_UNKNOWN_PREFIX \o "/unknown_type"
        carries == Len(t) >= Len(LOG_TYPE_UNKNOWN_PREFIX)
                   /\ \A n \in 1..Len(LOG_TYPE_UNKNOWN_PREFIX) :
                         Char(t, n) = Char(LOG_TYPE_UNKNOWN_PREFIX, n)
    IN  IF carries THEN t \o "_no_timestamp"
        ELSE LOG_TYPE_UNKNOWN_PREFIX \o "/" \o t \o "_no_timestamp"

\* every stored entry without timestamp lies in the bucket of that name, which
\* is not the bucket of its plain type
NoTimestampEntriesFiled ==
    \A i \in Buckets : \A j \in 1..Len(log_dict[i].records) :
        LET e == log_dict[i].records[j]
        IN  ~HasTimestamp(e) =>
              /\ log_dict[i].log_type = Str(NoTimestampBucket(e))
              /\ HasKey(e, LOG_TYPE_FIELD) => log_dict[i].log_type # GetKey(e, LOG_TYPE_FIELD)
              /\ (HasKey(e, LOG_TYPE_FIELD) /\ GetKey(e, LOG_TYPE_FIELD) = Str("app"))
                    => log_dict[i].log_type = Str("unknown/app_no_timestamp")
              /\ (HasKey(e, LOG_TYPE_FIELD) /\ GetKey(e, LOG_TYPE_FIELD) = Str("unknown_src"))
                    => log_dict[i].log_type = Str("unknown_src_no_timestamp")

\* classifying an entry without timestamp does not fail, puts the entry last in
\* the bucket of that name, leaves the first_timestamp of a bucket that exists as
\* it is, and gives a bucket it creates the wall-clock time
NoTimestampStep ==
    LET entry == Head(normalized_payloads)
    IN  (pc = "classify" /\ LacksAtMostFields(entry) /\ ~HasTimestamp(entry)) =>
          /\ pc' # "failed"
          /\ LET name == Str(NoTimestampBucket(entry))
                 i == DictIndex(log_dict', name)
             IN  /\ InDict(log_dict', name)
                 /\ log_dict'[i].records[Len(log_dict'[i].records)]
                       = setdefault(entry, LOG_ID_FIELD)
                 /\ IF InDict(log_dict, name)
                    THEN log_dict'[i].first_timestamp = log_dict[i].first_timestamp
                    ELSE log_dict'[i].first_timestamp \in Clock

\* C5: every entry without timestamp field is filed under the bucket named
\* <type-with-unknown-prefix>_no_timestamp (the prefix prepended only if the type
\* does not start with it), never under its plain type, and appending it never
\* alters the first_timestamp of that bucket.
C5_NoTimestampBucket ==
    /\ []NoTimestampEntriesFiled
    /\ [][NoTimestampStep /\ FirstSeenKept]_vars

\* an entry of type app without timestamp was appended to the bucket
\* unknown/app_no_timestamp, which an entry with a timestamp had created
C5_Witness ==
    \E i \in Buckets :
        LET b == log_dict[i]
        IN  /\ b.log_type = Str("unknown/app_no_timestamp")
            /\ Len(b.records) >= 2
            /\ HasTimestamp(b.records[1])
            /\ b.first_timestamp = dateutil_parse(T1).dt
            /\ ~HasTimestamp(b.records[2])
            /\ HasKey(b.records[2], LOG_TYPE_FIELD)
            /\ GetKey(b.records[2], LOG_TYPE_FIELD) = Str("app")

\* the text of a record: its data decompressed if gzip, and decoded
RecordText(r) == IF r.gz THEN decode(gzip_decompress(r)) ELSE decode(r)

\* the record is an envelope whose messageType is neither DATA_MESSAGE nor
\* CONTROL_MESSAGE
IsUnknownEnvelope(r) ==
    /\ r # NoRecord
    /\ RecordText(r).k = "enc"
    /\ RecordText(r).v.k = "obj"
    /\ HasKey(RecordText(r).v, "messageType")
    /\ GetKey(RecordText(r).v, "messageType") \notin {Str("DATA_MESSAGE"), Str("CONTROL_MESSAGE")}

\* C6: a record whose messageType is neither DATA_MESSAGE nor CONTROL_MESSAGE
\* ends the invocation in failure with a ValueError, wherever it sits in the batch
\* and whatever the records before it held; nothing has been uploaded, and a
\* failed invocation takes no further step.
C6_UnknownMessageTypeFatal ==
    /\ [](IsUnknownEnvelope(record) =>
            /\ pc = "failed"
            /\ error = [exc |-> "ValueError", at |-> "normalize"]
            /\ s3 = <<>>)
    /\ [][pc # "failed"]_vars

\* the unknown envelope came last in a batch whose earlier record filled a bucket
C6_Witness ==
    /\ IsUnknownEnvelope(record)
    /\ fetched = MaxRecords
    /\ log_dict # <<>>
    /\ pc = "failed"

\* ------------------------------------------------------------ properties of the normalizer
\* the normalizer has been applied to the text of `record`
Normalized == pc \in {"returned", "raised"}

\* the JSON document the text of `record` holds, when it holds one
IsJson(r) == RecordText(r).k = "enc"
Parsed(r) == RecordText(r).v

\* C7: for every well-formed JSON payload without messageType field the
\* normalizer returns exactly one entry, the parsed payload, and does not raise.
C7_PassThrough ==
    (Normalized /\ IsJson(record)
     /\ ~(Parsed(record).k = "obj" /\ HasKey(Parsed(record), "messageType")))
    => (pc = "returned" /\ normalized_payloads = <<Parsed(record)>>)

\* the record is a DATA_MESSAGE envelope whose logEvents is a list of events that
\* each carry a message string
IsDataEnvelope(r) ==
    /\ IsJson(r)
    /\ Parsed(r).k = "obj"
    /\ HasKey(Parsed(r), "messageType")
    /\ GetKey(Parsed(r), "messageType") = Str("DATA_MESSAGE")
    /\ HasKey(Parsed(r), "logEvents")
    /\ GetKey(Parsed(r), "logEvents").k = "list"
    /\ \A i \in 1..Len(GetKey(Parsed(r), "logEvents").items) :
          LET event == GetKey(Parsed(r), "logEvents").items[i]
          IN  event.k = "obj" /\ HasKey(event, "message") /\ IsStr(GetKey(event, "message"))

EventsOf(r) == GetKey(Parsed(r), "logEvents").items

\* a valid event: its message is JSON text
IsValidEvent(event) == GetKey(event, "message").k = "enc"

\* the parsed messages of the valid events, in their order
ValidMessages(events) ==
    LET valid == SelectSeq(events, IsValidEvent)
    IN  [i \in 1..Len(valid) |-> GetKey(valid[i], "message").v]

\* C8: for a DATA_MESSAGE envelope of N valid and M invalid events, in any
\* interleaving, the normalizer returns the N parsed messages of the valid events
\* in their order and does not raise: an invalid event adds nothing and does not
\* stop the events after it.
C8_DataMessageEvents ==
    (Normalized /\ IsDataEnvelope(record))
    => /\ pc = "returned"
       /\ normalized_payloads = ValidMessages(EventsOf(record))
       /\ Len(normalized_payloads) = Cardinality({i \in 1..Len(EventsOf(record)) :
                                                    IsValidEvent(EventsOf(record)[i])})

\* an envelope of a valid event, an invalid one and another valid one has been
\* normalized to the two valid ones
C8_Witness ==
    /\ pc = "returned"
    /\ IsDataEnvelope(record)
    /\ Len(EventsOf(record)) = 3
    /\ IsValidEvent(EventsOf(record)[1])
    /\ ~IsValidEvent(EventsOf(record)[2])
    /\ IsValidEvent(EventsOf(record)[3])
    /\ EventsOf(record)[1] # EventsOf(record)[3]
    /\ Len(normalized_payloads) = 2

\* the record is an envelope whose messageType is CONTROL_MESSAGE
IsControlEnvelope(r) ==
    /\ IsJson(r)
    /\ Parsed(r).k = "obj"
    /\ HasKey(Parsed(r), "messageType")
    /\ GetKey(Parsed(r), "messageType") = Str("CONTROL_MESSAGE")

\* C9: a CONTROL_MESSAGE envelope yields no entry and never raises, whatever
\* other fields it carries.
C9_ControlMessageSkipped ==
    (Normalized /\ IsControlEnvelope(record))
    => (pc = "returned" /\ normalized_payloads = <<>> /\ error = NoError)

\* a CONTROL_MESSAGE envelope that carries events without message has been
\* normalized
C9_Witness ==
    /\ pc = "returned"
    /\ IsControlEnvelope(record)
    /\ HasKey(Parsed(record), "logEvents")
    /\ GetKey(Parsed(record), "logEvents").k = "list"
    /\ HasKey(Parsed(record), "owner")

\* C10: a record whose decoded text is not valid JSON, empty and very short text
\* included, raises no error and yields no entry, so that the records after it
\* are still processed.
C10_MalformedNonFatal ==
    (record # NoRecord /\ ~IsJson(record))
    => (error.at \notin {"decode", "normalize"} /\ normalized_payloads = <<>>)

\* ------------------------------------------------------------ properties of the two phases
\* the record yields nothing by the specification: a CONTROL_MESSAGE envelope, or
\* text that is no JSON
IsQuietRecord(r) == r # NoRecord /\ (IsControlEnvelope(r) \/ ~IsJson(r))

\* C11: a batch of CONTROL_MESSAGE envelopes and non-JSON garbage only raises no
\* fatal error and uploads nothing: as long as nothing has been classified, a
\* record of either kind leaves the invocation without error, the BucketMap
\* empty and the storage untouched, up to the handler's return.
C11_QuietBatch ==
    (IsQuietRecord(record) /\ log_dict = <<>>)
    => (pc # "failed" /\ error = NoError /\ s3 = <<>>)

\* the object was written for the bucket: its key lies under the bucket's type
\* and its text has one line per entry of the bucket
IsObjectOf(object, b) ==
    /\ object.bucket = BUCKET_NAME
    /\ StartsWith(object.key, PATH_PREFIX \o "/" \o b.log_type.s \o "/")
    /\ Len(Split(UploadedText(object), "\n")) = Len(b.records)

\* the storage write of a bucket has failed
WriteFailed == error = [exc |-> "S3UploadFailedError", at |-> "put_to_s3"]

\* no step removes or changes an object that was written
WrittenObjectsKept == Len(s3) <= Len(s3') /\ SubSeq(s3', 1, Len(s3)) = s3

\* C12: when the storage write of a bucket fails, every bucket before it in
\* upload order has had its write made, the objects written are still there (no
\* step ever removes a written object), and the invocation has ended with the
\* fatal error.
C12_FailedWriteKeepsEarlier ==
    /\ [](WriteFailed =>
            /\ pc = "failed"
            /\ Len(s3) = upload_pos
            /\ \A i \in 1..upload_pos : IsObjectOf(s3[i], log_dict[i]))
    /\ [][WrittenObjectsKept]_vars

\* the write of the second bucket failed after the first bucket was written
C12_Witness ==
    /\ WriteFailed
    /\ upload_pos >= 1
    /\ Len(s3) >= 1
    /\ log_dict[upload_pos + 1].log_type # log_dict[1].log_type

\* one turn of the upload loop consumes the next bucket, and only that one, and
\* writes at most one object
BucketConsumedOnce ==
    (pc = "upload" /\ pc' = "upload")
    => (upload_pos' = upload_pos + 1 /\ Len(s3') <= Len(s3) + 1)

\* C13: when the invocation completes without fatal error there is exactly one
\* object per bucket of the BucketMap, written in upload order, every bucket
\* holds at least one entry and stands for one log type of its own; each turn of
\* the upload loop consumes exactly one bucket, and at no time are there more
\* objects than buckets consumed.
C13_OneObjectPerBucket ==
    /\ [](pc = "done" =>
            /\ Len(s3) = Len(log_dict)
            /\ upload_pos = Len(log_dict)
            /\ \A i \in Buckets :
                  /\ Len(log_dict[i].records) >= 1
                  /\ IsObjectOf(s3[i], log_dict[i])
                  /\ \A j \in Buckets : j # i => log_dict[j].log_type # log_dict[i].log_type)
    /\ [](Len(s3) <= upload_pos /\ upload_pos <= Len(log_dict))
    /\ [][BucketConsumedOnce]_vars

\* the invocation completed with two buckets, one of them of several entries,
\* and two objects
C13_Witness ==
    /\ pc = "done"
    /\ Len(log_dict) = 2
    /\ Len(s3) = 2
    /\ \E i \in Buckets : Len(log_dict[i].records) >= 2

\* the step in which a write fails writes nothing, and no step follows it: no
\* bucket is consumed and no object written once a write has failed
NothingAfterFailedWrite ==
    /\ WriteFailed' => (s3' = s3 /\ upload_pos' = upload_pos)
    /\ ~WriteFailed

\* C15: the failure of one bucket's storage write ends the invocation in
\* failure: the handler never returns after a failed write, an invocation that
\* returns has written every bucket, and the buckets after the failing one are
\* never consumed.
C15_WriteFailureFatal ==
    /\ [](WriteFailed => (pc = "failed" /\ upload_pos < Len(log_dict)))
    /\ [](pc = "done" => (error = NoError /\ Len(s3) = Len(log_dict)))
    /\ [][NothingAfterFailedWrite]_vars

\* the write of the first of two buckets failed: the second is left unwritten
C15_Witness ==
    /\ WriteFailed
    /\ pc = "failed"
    /\ upload_pos = 0
    /\ Len(log_dict) = 2
    /\ s3 = <<>>

\* ------------------------------------------------------------ properties of the classifier
\* the type under which an entry with a timestamp is filed
TypeOf(entry) ==
    IF HasKey(entry, LOG_TYPE_FIELD) THEN GetKey(entry, LOG_TYPE_FIELD) ELSE Str(unknown_type)

\* the entry carries a timestamp on which the date parser fails: a value that is
\* no string, or a string that is no date
ParserFailsOn(entry) ==
    /\ entry.k = "obj"
    /\ HasTimestamp(entry)
    /\ Truthy(TimestampOf(entry))
    /\ (TimestampOf(entry).k = "str" => ~dateutil_parse(TimestampOf(entry).s).ok)

\* classifying an entry whose timestamp the parser rejects, first of its bucket,
\* raises nothing, creates the bucket with the wall-clock time and appends the entry
BadTimestampStep ==
    LET entry == Head(normalized_payloads)
    IN  (pc = "classify" /\ ParserFailsOn(entry) /\ TypeOf(entry).k = "str"
         /\ ~InDict(log_dict, TypeOf(entry)))
        => /\ pc' # "failed"
           /\ error' = NoError
           /\ Len(log_dict') = Len(log_dict) + 1
           /\ log_dict'[Len(log_dict')].log_type = TypeOf(entry)
           /\ log_dict'[Len(log_dict')].first_timestamp \in Clock
           /\ log_dict'[Len(log_dict')].records = <<setdefault(entry, LOG_ID_FIELD)>>

\* C14: when the entry that creates a bucket carries a timestamp on which the
\* date parser fails, in any way, no error is raised: the bucket is created with
\* first_timestamp set to the wall-clock time and the entry is appended.
C14_BadTimestampFallback == [][BadTimestampStep]_vars

\* a classification step stores the entry the normalizer returned, field for
\* field, at the end of one bucket
StoredVerbatim ==
    (pc = "classify" /\ pc' # "failed")
    => \E i \in 1..Len(log_dict') :
          log_dict'[i].records =
             (IF i <= Len(log_dict) THEN log_dict[i].records ELSE <<>>)
             \o <<Head(normalized_payloads)>>

\* C16: the entry stored in a bucket, and so the text serialized for it, has
\* exactly the fields and values of the entry the normalizer returned:
\* classification adds, removes and changes no field, also when the identity,
\* the type or the timestamp is absent.
C16_EntryVerbatim == [][StoredVerbatim]_vars

\* the bucket name the specification gives an entry without type field
FallbackBucket(entry) ==
    IF HasTimestamp(entry)
    THEN LOG_TYPE_UNKNOWN_PREFIX \o "/unknown_type"
    ELSE LOG_TYPE_UNKNOWN_PREFIX \o "/unknown_type_no_timestamp"

\* every stored entry without type field lies in the bucket of its fallback name
UntypedEntriesFiled ==
    \A i \in Buckets : \A j \in 1..Len(log_dict[i].records) :
        LET e == log_dict[i].records[j]
        IN  ~HasKey(e, LOG_TYPE_FIELD) =>
              /\ log_dict[i].log_type = Str(FallbackBucket(e))
              /\ ~StartsWith(log_dict[i].log_type.s,
                             LOG_TYPE_UNKNOWN_PREFIX \o "/" \o LOG_TYPE_UNKNOWN_PREFIX \o "/")

\* classifying an entry without type field does not fail and puts the entry last
\* in the bucket of its fallback name
UntypedStep ==
    LET entry == Head(normalized_payloads)
    IN  (pc = "classify" /\ LacksAtMostFields(entry) /\ ~HasKey(entry, LOG_TYPE_FIELD))
        => /\ pc' # "failed"
           /\ InDict(log_dict', Str(FallbackBucket(entry)))
           /\ LET b == log_dict'[DictIndex(log_dict', Str(FallbackBucket(entry)))]
              IN  b.records[Len(b.records)] = setdefault(entry, LOG_ID_FIELD)

\* C17: an entry without type field is filed under <unknown-prefix>/unknown_type
\* when it has a timestamp and under <unknown-prefix>/unknown_type_no_timestamp,
\* the prefix once and not twice, when it has none.
C17_UnknownTypeFallback ==
    /\ []UntypedEntriesFiled
    /\ [][UntypedStep]_vars

\* an entry without type with a timestamp and one without type and timestamp
\* have been filed, each in its bucket
C17_Witness ==
    /\ \E i \in Buckets :
          /\ log_dict[i].log_type = Str("unknown/unknown_type")
          /\ ~HasKey(log_dict[i].records[1], LOG_TYPE_FIELD)
          /\ HasTimestamp(log_dict[i].records[1])
    /\ \E i \in Buckets :
          /\ log_dict[i].log_type = Str("unknown/unknown_type_no_timestamp")
          /\ ~HasKey(log_dict[i].records[1], LOG_TYPE_FIELD)
          /\ ~HasTimestamp(log_dict[i].records[1])

\* ------------------------------------------------------------ properties of the handler
\* the invocation is in decode_validate, or has failed there
InDecodePhase ==
    \/ pc \in {"fetch", "classify"}
    \/ (pc = "failed" /\ error.at \in {"decode", "normalize", "classify"})

\* a write happens only in the upload phase, when no payload is left to classify;
\* and the upload phase reads no record and files no entry
PhasesInOrder ==
    /\ (s3' # s3 \/ upload_pos' # upload_pos)
          => (pc = "upload" /\ normalized_payloads = <<>>)
    /\ pc = "upload"
          => (pc' \in {"upload", "done", "failed"} /\ fetched' = fetched
              /\ log_dict' = log_dict /\ processed_records' = processed_records)

\* C18: no storage write is made before every record of the batch has been
\* decoded, normalized and classified: during decode_validate, and when the
\* invocation fails there, nothing has been written, whatever the buckets hold.
C18_UploadAfterClassification ==
    /\ [](InDecodePhase => (s3 = <<>> /\ upload_pos = 0))
    /\ [][PhasesInOrder]_vars

\* the last record of the batch ended the invocation while a bucket held the
\* two entries of the record before it
C18_Witness ==
    /\ pc = "failed"
    /\ InDecodePhase
    /\ fetched = MaxRecords
    /\ \E i \in Buckets : Len(log_dict[i].records) >= 2
    /\ s3 = <<>>

\* a date and time, as dateutil and datetime.now() return it
IsDatetime(v) == DOMAIN v = {"year", "month", "day", "hour", "minute", "second"}

\* the bucket holds an entry, a first_timestamp and a first_id that is text
WellFormed(b) ==
    /\ Len(b.records) >= 1
    /\ IsDatetime(b.first_timestamp)
    /\ b.first_id.k = "str"

\* C19: at every point of the invocation every bucket of the BucketMap holds at
\* least one entry, a first_timestamp that is a date and time and a first_id that
\* is a text string; so the upload phase fails on a storage write only, never on
\* the construction of a key.
C19_BucketsWellFormed ==
    /\ \A i \in Buckets : WellFormed(log_dict[i])
    /\ (pc = "failed" /\ ~InDecodePhase) => WriteFailed

====
